---- MODULE Spec2Model ----
(***************************************************************************)
(* A model of MiraSim.py: the FCFS batch scheduler simulator of IBM Mira.  *)
(* The state is the Trace, the Mira object (queue, running_jobs,           *)
(* midplanes, simulated_wallclock), every Job object, and the position of  *)
(* the top-level simulation loop.                                          *)
(***************************************************************************)
EXTENDS Integers, Sequences, FiniteSets

\* ---------------------------------------------------------------- bounds
\* Largest number of rows of the trace file.
MaxJobs == 3
\* Largest (normalised) QUEUED_TIMESTAMP of a row.
MaxArrival == 1
\* Largest END_TIMESTAMP - START_TIMESTAMP of a row.
MaxDuration == 2
\* Largest NODES_REQUESTED of a row.
MaxNodes == 8
\* Number of ticks after which the simulation loop is no longer followed:
\* more than any trace of jobs that all fit needs to run to its end.
MaxTick == MaxJobs * (MaxDuration + 1) + MaxArrival + 2
\* The pool: range(96) midplanes of 16*32 nodes in the source, scaled down.
NumMidplanes == 3
NodesPerMidplane == 2

\* Python's None, for a time, a job reference.
None == -1

\* JobStatus, by the enum's values.
CREATED == 0
QUEUED == 1
READY == 2
RUNNING == 3
ENDED == 4

VACANT == 0
OCCUPIED == 1

VARIABLES
    jobs,                \* Job objects by name: the fields of class Job
    trace,               \* Trace.jobs: names, sorted by submitted_time descending
    queue,               \* Mira.queue.data
    running_jobs,        \* Mira.running_jobs
    midplanes,           \* Mira.midplanes: status, job and nodes of each MidPlane
    simulated_wallclock, \* Mira.simulated_wallclock
    pc,                  \* position in the simulation loop
    submit_order,        \* names in the order of the "Submitted on" log lines
    admit_order,         \* names in the order of the "Find vacant midplanes" log lines
    admit_time           \* wallclock of each job's "Find vacant midplanes" log line

vars == <<jobs, trace, queue, running_jobs, midplanes, simulated_wallclock, pc,
          submit_order, admit_order, admit_time>>

MidplaneIds == 1..NumMidplanes
NodeIds == 1..NodesPerMidplane

\* ------------------------------------------------------------ class Job
\* Job.__init__ ; status_log lists the values assigned to self.status.
NewJob(submitted_time, duration, num_of_requested_nodes) ==
    [ submitted_time |-> submitted_time,
      start_time |-> None,
      end_time |-> None,
      duration |-> duration,
      num_of_requested_nodes |-> num_of_requested_nodes,
      status |-> CREATED,
      midplanes |-> << >>,
      status_log |-> <<CREATED>> ]

SetStatus(job, s) ==
    [job EXCEPT !.status = s, !.status_log = Append(@, s)]

JobSubmit(job, curr_time) ==
    SetStatus([job EXCEPT !.submitted_time = curr_time], QUEUED)

\* A mis-written start: the expected end one tick late.
JobStartLate(job, curr_time) ==
    [SetStatus([job EXCEPT !.start_time = curr_time], RUNNING)
        EXCEPT !.end_time = curr_time + job.duration + 1]

JobStart(job, curr_time) ==
    [SetStatus([job EXCEPT !.start_time = curr_time], RUNNING)
        EXCEPT !.end_time = curr_time + job.duration]

JobEnd(job, curr_time) ==
    SetStatus([job EXCEPT !.end_time = curr_time], ENDED)

\* A mis-written tick: a READY job of duration 0 is ended without being started.
JobTickStartShortcut(job, curr_time) ==
    IF job.status = READY
    THEN IF job.duration = 0
         THEN JobEnd([job EXCEPT !.start_time = curr_time], curr_time)
         ELSE JobStart(job, curr_time)
    ELSE job

JobTickStart(job, curr_time) ==
    IF job.status = READY THEN JobStart(job, curr_time) ELSE job

\* A mis-written tick: the end test off by one.
JobTickEndEarly(job, curr_time) ==
    IF job.status = RUNNING /\ job.end_time <= curr_time + 1
    THEN JobEnd(job, curr_time)
    ELSE job

JobTickEnd(job, curr_time) ==
    IF job.status = RUNNING /\ job.end_time <= curr_time
    THEN JobEnd(job, curr_time)
    ELSE job

JobTick(job, curr_time) ==
    JobTickEnd(JobTickStart(job, curr_time), curr_time)

JobAssignMidplanes(job, mps) ==
    [job EXCEPT !.midplanes = mps]

JobReady(job) ==
    SetStatus(job, READY)

IsEnded(job) ==
    job.status = ENDED

\* ------------------------------------------------------- class MidPlane
NewMidPlane ==
    [ status |-> VACANT, job |-> None, nodes |-> [n \in NodeIds |-> None] ]

MpAssignJob(mp, j) ==
    [ status |-> OCCUPIED, job |-> j, nodes |-> [n \in NodeIds |-> j] ]

\* A mis-written free_up: the loop over self.nodes left out.
MpFreeUpKeepNodes(mp) ==
    [ status |-> VACANT, job |-> None, nodes |-> mp.nodes ]

MpFreeUp(mp) ==
    [ status |-> VACANT, job |-> None, nodes |-> [n \in NodeIds |-> None] ]

\* Line 140 of free_up reads self.job.name: with self.job None it raises
\* AttributeError, after the warning of line 136 and before line 141.
FreeUpRaises(mp) ==
    mp.job = None

IsVacant(mp) ==
    mp.status = VACANT

\* ---------------------------------------------------------- class Queue
Enqueue(q, obj) == Append(q, obj)

\* A mis-written dequeue: list.pop() takes the last element, not the first.
DequeueLast(q) == [ obj |-> q[Len(q)], data |-> SubSeq(q, 1, Len(q) - 1) ]

\* self.data.pop(0): the element returned and the list left.
Dequeue(q) == [ obj |-> Head(q), data |-> Tail(q) ]

Peek(q) == Head(q)

\* ----------------------------------------------------------- class Mira
\* A mis-written search: the midplanes are scanned from the last to the first.
RECURSIVE FindVacantFromEnd(_, _, _, _)
FindVacantFromEnd(mps, i, found, wanted) ==
    IF i > NumMidplanes \/ Len(found) = wanted
    THEN found
    ELSE FindVacantFromEnd(mps, i + 1,
                           IF IsVacant(mps[NumMidplanes + 1 - i])
                           THEN Append(found, NumMidplanes + 1 - i)
                           ELSE found,
                           wanted)

\* A mis-written search: the first midplane of the list is never looked at.
RECURSIVE FindVacantSkipFirst(_, _, _, _)
FindVacantSkipFirst(mps, i, found, wanted) ==
    IF i > NumMidplanes \/ Len(found) = wanted
    THEN found
    ELSE FindVacantSkipFirst(mps, i + 1,
                             IF i > 1 /\ IsVacant(mps[i])
                             THEN Append(found, i)
                             ELSE found,
                             wanted)

\* A mis-written search: the test that stops the scan is left out, so every
\* vacant midplane is collected.
RECURSIVE FindVacantNoBreak(_, _, _, _)
FindVacantNoBreak(mps, i, found, wanted) ==
    IF i > NumMidplanes
    THEN found
    ELSE FindVacantNoBreak(mps, i + 1,
                           IF IsVacant(mps[i]) THEN Append(found, i) ELSE found,
                           wanted)

\* The search loop of Mira.schedule: the midplanes collected after
\* looking at midplanes i.. with `found` already collected.
RECURSIVE FindVacant(_, _, _, _)
FindVacant(mps, i, found, wanted) ==
    IF i > NumMidplanes \/ Len(found) = wanted
    THEN found
    ELSE FindVacant(mps, i + 1,
                    IF IsVacant(mps[i]) THEN Append(found, i) ELSE found,
                    wanted)

\* A mis-written conversion: the request rounded up to whole midplanes.
MidplanesNeededCeil(nodes, per_midplane) ==
    (nodes + per_midplane - 1) \div per_midplane

\* num_of_requested_nodes // 512, for a midplane of per_midplane nodes.
MidplanesNeeded(nodes, per_midplane) ==
    nodes \div per_midplane

RequestedMidplanes(job) ==
    MidplanesNeeded(job.num_of_requested_nodes, NodesPerMidplane)

\* A mis-written clean-up: the ended job is left in the list.
RemoveNothing(s, x) == s

\* list.remove(x): drops the first element equal to x.
RECURSIVE Remove(_, _)
Remove(s, x) ==
    IF s = << >> THEN << >>
    ELSE IF Head(s) = x THEN Tail(s)
    ELSE <<Head(s)>> \o Remove(Tail(s), x)

\* A mis-written clean-up: the midplanes of the ended job are not freed.
FreeNone(mps, held) == mps

\* for md in j.midplanes: md.free_up()
RECURSIVE FreeAll(_, _)
FreeAll(mps, held) ==
    IF held = << >> THEN mps
    ELSE FreeAll([mps EXCEPT ![Head(held)] = MpFreeUp(@)], Tail(held))

\* The body of the loop of Mira.jobs_tick for the job at list position i,
\* on st = [jobs, midplanes, running, ticked].
TickOne(st, i, curr_wallclock) ==
    LET j == st.running[i]
        job == JobTick(st.jobs[j], curr_wallclock)
    IN  IF IsEnded(job)
        THEN [ jobs |-> [st.jobs EXCEPT ![j] = job],
               midplanes |-> FreeAll(st.midplanes, job.midplanes),
               running |-> Remove(st.running, j),
               ticked |-> Append(st.ticked, j) ]
        ELSE [st EXCEPT !.jobs[j] = job, !.ticked = Append(@, j)]

\* `for j in self.running_jobs` is a list iterator: it yields the element
\* at its index, then moves the index on by one, until the index reaches
\* the length the list has at that moment.
RECURSIVE JobsTickLoop(_, _, _)
JobsTickLoop(st, i, curr_wallclock) ==
    IF i > Len(st.running)
    THEN st
    ELSE JobsTickLoop(TickOne(st, i, curr_wallclock), i + 1, curr_wallclock)

JobsTickResult(curr_wallclock) ==
    JobsTickLoop([ jobs |-> jobs, midplanes |-> midplanes,
                   running |-> running_jobs, ticked |-> << >> ],
                 1, curr_wallclock)

\* ------------------------------------------------------------- Init
\* The state after parse_trace_file: at least one row, the jobs sorted by
\* submitted_time descending, the earliest at 0.
JobRows(n) ==
    { r \in [1..n -> [ submitted_time : 0..MaxArrival,
                       duration : 0..MaxDuration,
                       num_of_requested_nodes : 0..MaxNodes ]] :
        /\ r[n].submitted_time = 0
        /\ \A i \in 1..(n - 1) : r[i].submitted_time >= r[i + 1].submitted_time }

Init ==
    /\ \E n \in 1..MaxJobs : \E r \in JobRows(n) :
          /\ jobs = [j \in 1..n |-> NewJob(r[j].submitted_time, r[j].duration,
                                           r[j].num_of_requested_nodes)]
          /\ trace = [j \in 1..n |-> j]
          /\ admit_time = [j \in 1..n |-> None]
    /\ queue = << >>
    /\ running_jobs = << >>
    /\ midplanes = [m \in MidplaneIds |-> NewMidPlane]
    /\ simulated_wallclock = 0
    /\ pc = "loop"
    /\ submit_order = << >>
    /\ admit_order = << >>

\* ---------------------------------------------------------- actions
\* A mis-written loop condition: the running jobs are forgotten.
LoopRunningNoRunning ==
    Len(trace) > 0 \/ Len(queue) > 0

\* while len(trace.jobs) > 0 or len(mira.queue) > 0 or len(mira.running_jobs) > 0
LoopRunning ==
    Len(trace) > 0 \/ Len(queue) > 0 \/ Len(running_jobs) > 0

LoopEnter ==
    /\ pc = "loop"
    /\ LoopRunning
    /\ simulated_wallclock < MaxTick
    /\ pc' = "get_job"
    /\ UNCHANGED <<jobs, trace, queue, running_jobs, midplanes,
                   simulated_wallclock, submit_order, admit_order, admit_time>>

LoopExit ==
    /\ pc = "loop"
    /\ ~LoopRunning
    /\ pc' = "done"
    /\ UNCHANGED <<jobs, trace, queue, running_jobs, midplanes,
                   simulated_wallclock, submit_order, admit_order, admit_time>>

\* A mis-written get_job: the arrival time is not compared with curr_time.
GetJobAny ==
    Len(trace) > 0

\* Trace.get_job returns a job
GetJobDue ==
    Len(trace) > 0 /\ jobs[trace[Len(trace)]].submitted_time = simulated_wallclock

\* new_job = trace.get_job(...); mira.submit_job(new_job)
SubmitJob ==
    /\ pc = "get_job"
    /\ GetJobDue
    /\ LET new_job == trace[Len(trace)]
       IN  /\ trace' = SubSeq(trace, 1, Len(trace) - 1)
           /\ queue' = Enqueue(queue, new_job)
           /\ jobs' = [jobs EXCEPT ![new_job] = JobSubmit(@, simulated_wallclock)]
           /\ submit_order' = Append(submit_order, new_job)
    /\ UNCHANGED <<running_jobs, midplanes, simulated_wallclock, pc,
                   admit_order, admit_time>>

\* trace.get_job returns None: the inner while ends
NoJobDue ==
    /\ pc = "get_job"
    /\ ~GetJobDue
    /\ pc' = "schedule"
    /\ UNCHANGED <<jobs, trace, queue, running_jobs, midplanes,
                   simulated_wallclock, submit_order, admit_order, admit_time>>

\* Mira.schedule, the queue empty
ScheduleIdle ==
    /\ pc = "schedule"
    /\ queue = << >>
    /\ pc' = "jobs_tick"
    /\ UNCHANGED <<jobs, trace, queue, running_jobs, midplanes,
                   simulated_wallclock, submit_order, admit_order, admit_time>>

\* The job Mira.schedule considers.
NextJob == Peek(queue)

VacantMidplanes ==
    FindVacant(midplanes, 1, << >>, RequestedMidplanes(jobs[NextJob]))

\* A mis-written test: fewer midplanes than requested are accepted too.
FitsAtMost ==
    Len(VacantMidplanes) <= RequestedMidplanes(jobs[NextJob])

Fits ==
    Len(VacantMidplanes) = RequestedMidplanes(jobs[NextJob])

\* Lines 212-218 of Mira.schedule: the state change of an admission.
Admit ==
    /\ queue # << >>
    /\ Fits
    /\ LET job == Dequeue(queue).obj
           vacant_midplanes == VacantMidplanes
       IN  /\ queue' = Dequeue(queue).data
           /\ jobs' = [jobs EXCEPT ![job] =
                          JobReady(JobAssignMidplanes(@, vacant_midplanes))]
           /\ midplanes' = [m \in MidplaneIds |->
                              IF \E k \in 1..Len(vacant_midplanes) :
                                     vacant_midplanes[k] = m
                              THEN MpAssignJob(midplanes[m], job)
                              ELSE midplanes[m]]
           /\ running_jobs' = Append(running_jobs, job)
           /\ admit_order' = Append(admit_order, job)
           /\ admit_time' = [admit_time EXCEPT ![job] = simulated_wallclock]
    /\ UNCHANGED <<trace, simulated_wallclock, submit_order>>

\* A mis-written scheduler that is run again after each admission.
ScheduleAdmitAgain ==
    /\ pc = "schedule"
    /\ Admit
    /\ pc' = "schedule"

\* Mira.schedule, the head of the queue allocated
ScheduleAdmit ==
    /\ pc = "schedule"
    /\ Admit
    /\ pc' = "jobs_tick"

\* A mis-written scheduler that sends a head it cannot allocate to the back
\* of the queue.
ScheduleWaitRotate ==
    /\ pc = "schedule"
    /\ queue # << >>
    /\ ~Fits
    /\ queue' = Enqueue(Dequeue(queue).data, Dequeue(queue).obj)
    /\ pc' = "jobs_tick"
    /\ UNCHANGED <<jobs, trace, running_jobs, midplanes,
                   simulated_wallclock, submit_order, admit_order, admit_time>>

\* Mira.schedule, the head of the queue not allocated
ScheduleWait ==
    /\ pc = "schedule"
    /\ queue # << >>
    /\ ~Fits
    /\ pc' = "jobs_tick"
    /\ UNCHANGED <<jobs, trace, queue, running_jobs, midplanes,
                   simulated_wallclock, submit_order, admit_order, admit_time>>

\* mira.jobs_tick(mira.simulated_wallclock)
JobsTick ==
    /\ pc = "jobs_tick"
    /\ LET st == JobsTickResult(simulated_wallclock)
       IN  /\ jobs' = st.jobs
           /\ midplanes' = st.midplanes
           /\ running_jobs' = st.running
    /\ pc' = "inc_wallclock"
    /\ UNCHANGED <<trace, queue, simulated_wallclock, submit_order,
                   admit_order, admit_time>>

\* mira.inc_wallclock()
IncWallclock ==
    /\ pc = "inc_wallclock"
    /\ simulated_wallclock' = simulated_wallclock + 1
    /\ pc' = "loop"
    /\ UNCHANGED <<jobs, trace, queue, running_jobs, midplanes,
                   submit_order, admit_order, admit_time>>

Next ==
    \/ LoopEnter
    \/ LoopExit
    \/ SubmitJob
    \/ NoJobDue
    \/ ScheduleIdle
    \/ ScheduleAdmit
    \/ ScheduleWait
    \/ JobsTick
    \/ IncWallclock

Spec == Init /\ [][Next]_vars

\* The program is one thread that runs until its loop ends: a step that can
\* be taken is taken.
FairSpec == Spec /\ WF_vars(Next)

\* ------------------------------------------------- the MidPlane methods
\* The midplanes of a new Mira and some Job objects, with assign_job and
\* free_up called on them in any order; pc is "call" while the calls
\* return and names the exception once one has propagated.
MidPlaneInit ==
    /\ jobs = [j \in 1..MaxJobs |-> NewJob(0, 0, 0)]
    /\ admit_time = [j \in 1..MaxJobs |-> None]
    /\ trace = << >>
    /\ queue = << >>
    /\ running_jobs = << >>
    /\ midplanes = [m \in MidplaneIds |-> NewMidPlane]
    /\ simulated_wallclock = 0
    /\ pc = "call"
    /\ submit_order = << >>
    /\ admit_order = << >>

\* self.midplanes[m].assign_job(j)
CallAssignJob(m, j) ==
    /\ pc = "call"
    /\ midplanes' = [midplanes EXCEPT ![m] = MpAssignJob(@, j)]
    /\ UNCHANGED <<jobs, trace, queue, running_jobs, simulated_wallclock, pc,
                   submit_order, admit_order, admit_time>>

\* self.midplanes[m].free_up()
CallFreeUp(m) ==
    /\ pc = "call"
    /\ midplanes' = [midplanes EXCEPT ![m] = MpFreeUp(@)]
    /\ pc' = IF FreeUpRaises(midplanes[m]) THEN "AttributeError" ELSE "call"
    /\ UNCHANGED <<jobs, trace, queue, running_jobs, simulated_wallclock,
                   submit_order, admit_order, admit_time>>

AssignJobCalls ==
    \E m \in MidplaneIds : \E j \in DOMAIN jobs : CallAssignJob(m, j)

FreeUpCalls ==
    \E m \in MidplaneIds : CallFreeUp(m)

MidPlaneNext ==
    \/ AssignJobCalls
    \/ FreeUpCalls

MidPlaneSpec == MidPlaneInit /\ [][MidPlaneNext]_vars

\* ================================================================ claims
JobIds == DOMAIN jobs

Statuses == <<CREATED, QUEUED, READY, RUNNING, ENDED>>

IsPrefix(s, t) ==
    Len(s) <= Len(t) /\ SubSeq(t, 1, Len(s)) = s

InSeq(s, x) == \E i \in 1..Len(s) : s[i] = x

Occurrences(s, x) == Cardinality({i \in 1..Len(s) : s[i] = x})

\* The midplanes the head-of-queue search would collect for job j now.
WouldFit(j) ==
    Len(FindVacant(midplanes, 1, << >>, RequestedMidplanes(jobs[j])))
        = RequestedMidplanes(jobs[j])

\* Job k was submitted when every job submitted before it had already
\* ended in an earlier tick: the queue and the running set were empty.
ArrivedEmpty(k) ==
    /\ InSeq(submit_order, k)
    /\ \A i \in 1..Len(submit_order) :
          (\E p \in (i + 1)..Len(submit_order) : submit_order[p] = k)
          => /\ jobs[submit_order[i]].status = ENDED
             /\ jobs[submit_order[i]].end_time < jobs[k].submitted_time

\* ---------------------------------------------------------------- C1
\* C1: jobs leave the admission queue in exactly the order in which
\* submit_job enqueued them: the admitted jobs are a prefix of the submitted
\* ones, and the queue holds the rest in submission order, so no job is
\* admitted ahead of a head that does not fit.
C1_FCFSAdmissionOrder ==
    /\ IsPrefix(admit_order, submit_order)
    /\ queue = SubSeq(submit_order, Len(admit_order) + 1, Len(submit_order))

\* The scheduler runs with a head that does not fit in front of a job that
\* would fit, after an earlier admission.
C1_Witness ==
    /\ pc = "schedule"
    /\ Len(queue) >= 2
    /\ ~Fits
    /\ WouldFit(queue[2])
    /\ admit_order # << >>

\* ---------------------------------------------------------------- C2
\* Jobs j then k were submitted one after the other in the same tick, into
\* an empty system whose pool holds both.
SameTickPair(j, k) ==
    /\ \E p \in 1..(Len(submit_order) - 1) :
          submit_order[p] = j /\ submit_order[p + 1] = k
    /\ jobs[j].submitted_time = jobs[k].submitted_time
    /\ ArrivedEmpty(j)
    /\ RequestedMidplanes(jobs[j]) + RequestedMidplanes(jobs[k]) <= NumMidplanes

\* C2: no two jobs are admitted in the same tick; and of two jobs that both
\* fit and arrive together at tick t, the first is admitted at t and the
\* second at t + 1.
C2_OneAdmissionPerTick ==
    /\ \A j, k \in JobIds :
          (j # k /\ admit_time[j] # None /\ admit_time[k] # None)
          => admit_time[j] # admit_time[k]
    /\ \A j, k \in JobIds :
          SameTickPair(j, k)
          => LET t == jobs[j].submitted_time
             IN  /\ admit_time[j] \in {None, t}
                 /\ admit_time[k] \in {None, t + 1}
                 /\ simulated_wallclock > t => admit_time[j] = t
                 /\ simulated_wallclock > t + 1 => admit_time[k] = t + 1

\* Two jobs that each need a midplane arrived together and both were admitted.
C2_Witness ==
    \E j, k \in JobIds :
        /\ SameTickPair(j, k)
        /\ RequestedMidplanes(jobs[j]) >= 1
        /\ RequestedMidplanes(jobs[k]) >= 1
        /\ admit_time[j] # None
        /\ admit_time[k] # None

\* ---------------------------------------------------------------- C3
\* C3: a call of jobs_tick applies Job.tick exactly once to each job that is
\* in the running set when the call starts, in list order.
C3_EveryRunningJobTicked ==
    pc = "jobs_tick" => JobsTickResult(simulated_wallclock).ticked = running_jobs

\* ---------------------------------------------------------------- C4
Held(j) == {jobs[j].midplanes[i] : i \in 1..Len(jobs[j].midplanes)}

\* C4: a midplane is OCCUPIED exactly when it has an owner and all its nodes
\* are assigned to that owner, VACANT exactly when it has no owner and no
\* node is assigned; the midplanes of a running job are owned by it, and no
\* midplane is in the allocation of two running jobs or twice in one.
C4_ExclusiveOwnership ==
    /\ \A m \in MidplaneIds :
          /\ midplanes[m].status \in {VACANT, OCCUPIED}
          /\ midplanes[m].status = OCCUPIED
                <=> /\ midplanes[m].job # None
                    /\ \A n \in NodeIds : midplanes[m].nodes[n] = midplanes[m].job
          /\ midplanes[m].status = VACANT
                <=> /\ midplanes[m].job = None
                    /\ \A n \in NodeIds : midplanes[m].nodes[n] = None
          /\ midplanes[m].job # None => InSeq(running_jobs, midplanes[m].job)
    /\ \A i \in 1..Len(running_jobs) :
          LET j == running_jobs[i]
          IN  /\ Cardinality(Held(j)) = Len(jobs[j].midplanes)
              /\ \A m \in Held(j) : midplanes[m].job = j
              /\ \A i2 \in 1..Len(running_jobs) :
                    i2 # i => Held(j) \cap Held(running_jobs[i2]) = {}

\* Two running jobs hold midplanes while a midplane freed by an ended job
\* is vacant again.
C4_Witness ==
    /\ \E j, k \in JobIds :
          /\ j # k
          /\ InSeq(running_jobs, j) /\ InSeq(running_jobs, k)
          /\ Held(j) # {} /\ Held(k) # {}
    /\ \E e \in JobIds :
          /\ jobs[e].status = ENDED
          /\ \E m \in Held(e) : midplanes[m].status = VACANT

\* ---------------------------------------------------------------- C5
RECURSIVE HeldCount(_)
HeldCount(running) ==
    IF running = << >> THEN 0
    ELSE Len(jobs[Head(running)].midplanes) + HeldCount(Tail(running))

OccupiedCount == Cardinality({m \in MidplaneIds : midplanes[m].status = OCCUPIED})
VacantCount == Cardinality({m \in MidplaneIds : midplanes[m].status = VACANT})

\* C5: the OCCUPIED and the VACANT midplanes together are all the midplanes,
\* and the running jobs together hold as many midplanes as are OCCUPIED.
C5_Conservation ==
    /\ OccupiedCount + VacantCount = NumMidplanes
    /\ HeldCount(running_jobs) = OccupiedCount

\* After a tick in which a job ended and freed its midplanes, a running job
\* still holds some.
C5_Witness ==
    /\ pc = "inc_wallclock"
    /\ OccupiedCount >= 1
    /\ VacantCount >= 1
    /\ \E e \in JobIds :
          /\ jobs[e].status = ENDED
          /\ jobs[e].end_time = simulated_wallclock
          /\ Held(e) # {}

\* ---------------------------------------------------------------- C6
\* C6: each job is in exactly one of the trace (status CREATED, and not yet
\* due when a tick begins), the queue (QUEUED), the running set (READY or
\* RUNNING) or none of them (ENDED); an ENDED job is not in the running set
\* and owns no midplane.
C6_JobPlacement ==
    \A j \in JobIds :
        /\ Occurrences(trace, j) + Occurrences(queue, j)
              + Occurrences(running_jobs, j)
              = (IF jobs[j].status = ENDED THEN 0 ELSE 1)
        /\ InSeq(trace, j) <=> jobs[j].status = CREATED
        /\ InSeq(queue, j) <=> jobs[j].status = QUEUED
        /\ InSeq(running_jobs, j) <=> jobs[j].status \in {READY, RUNNING}
        /\ (InSeq(trace, j) /\ pc = "loop")
              => jobs[j].submitted_time >= simulated_wallclock
        /\ jobs[j].status = ENDED
              => \A m \in MidplaneIds :
                    /\ midplanes[m].job # j
                    /\ \A n \in NodeIds : midplanes[m].nodes[n] # j

\* The tick in which a job that held a midplane ended is over, another job
\* is running and a third is still queued or in the trace.
C6_Witness ==
    /\ pc = "inc_wallclock"
    /\ \E e \in JobIds :
          /\ jobs[e].status = ENDED
          /\ jobs[e].end_time = simulated_wallclock
          /\ Held(e) # {}
    /\ running_jobs # << >>
    /\ trace # << >> \/ queue # << >>

\* ---------------------------------------------------------------- C7
\* C7: the values a job's status takes are CREATED, QUEUED, READY, RUNNING,
\* ENDED in that order, none skipped and none taken twice.
C7_LinearLifecycle ==
    \A j \in JobIds :
        /\ IsPrefix(jobs[j].status_log, Statuses)
        /\ jobs[j].status = jobs[j].status_log[Len(jobs[j].status_log)]

\* A job of duration 0 has started and ended in one Job.tick call.
C7_Witness ==
    \E j \in JobIds :
        /\ jobs[j].duration = 0
        /\ jobs[j].status = ENDED
        /\ jobs[j].start_time = jobs[j].end_time

\* ---------------------------------------------------------------- C8
\* C8: once a job has started, end_time = start_time + duration.
C8_EndTimeIsStartPlusDuration ==
    \A j \in JobIds :
        jobs[j].status \in {RUNNING, ENDED}
        => jobs[j].end_time = jobs[j].start_time + jobs[j].duration

\* ---------------------------------------------------------------- C9
\* C9: a job of duration D admitted at tick T is not ENDED before tick
\* T + D, and the tick at which it ended is at least T + D.
C9_RoundTripLowerBound ==
    \A j \in JobIds :
        /\ (admit_time[j] # None
              /\ simulated_wallclock < admit_time[j] + jobs[j].duration)
              => jobs[j].status # ENDED
        /\ jobs[j].status = ENDED
              => /\ admit_time[j] # None
                 /\ jobs[j].end_time >= admit_time[j] + jobs[j].duration

\* A job of duration at least 1 ended later than T + D, having shared the
\* running set with another job.
C9_Witness ==
    \E j \in JobIds :
        /\ jobs[j].status = ENDED
        /\ jobs[j].duration >= 1
        /\ jobs[j].end_time > admit_time[j] + jobs[j].duration

\* --------------------------------------------------------------- C10
\* Job j of duration at least 1 arrived into an empty system whose pool
\* holds it.
AloneAndFits(j) ==
    /\ jobs[j].duration >= 1
    /\ ArrivedEmpty(j)
    /\ RequestedMidplanes(jobs[j]) <= NumMidplanes

HoldsItsMidplanes(j) ==
    /\ Len(jobs[j].midplanes) = RequestedMidplanes(jobs[j])
    /\ \A m \in Held(j) : midplanes[m].status = OCCUPIED /\ midplanes[m].job = j

\* C10: a job of duration D >= 1 that arrives at tick T into an empty system
\* that can hold it is QUEUED and then READY, holding its midplanes, within
\* tick T; is RUNNING with end_time = T + D from the end of tick T, so at
\* tick T + 1; and is ENDED with its midplanes VACANT again in tick T + D.
C10_SingleJobTimeline ==
    \A j \in JobIds :
        AloneAndFits(j)
        => LET T == jobs[j].submitted_time
               D == jobs[j].duration
           IN  /\ jobs[j].status = QUEUED
                     => /\ simulated_wallclock = T
                        /\ pc \in {"get_job", "schedule"}
               /\ jobs[j].status = READY
                     => /\ simulated_wallclock = T
                        /\ pc = "jobs_tick"
                        /\ admit_time[j] = T
                        /\ HoldsItsMidplanes(j)
               /\ jobs[j].status = RUNNING
                     => /\ jobs[j].start_time = T
                        /\ jobs[j].end_time = T + D
                        /\ HoldsItsMidplanes(j)
               /\ (simulated_wallclock = T /\ pc = "inc_wallclock")
                     => jobs[j].status = RUNNING
               /\ (simulated_wallclock > T /\ simulated_wallclock < T + D)
                     => jobs[j].status = RUNNING
               /\ (simulated_wallclock = T + D
                      /\ pc \in {"loop", "get_job", "schedule", "jobs_tick"})
                     => jobs[j].status = RUNNING
               /\ (simulated_wallclock = T + D /\ pc = "inc_wallclock")
                     => /\ jobs[j].status = ENDED
                        /\ \A m \in Held(j) : midplanes[m].status = VACANT
               /\ simulated_wallclock > T + D => jobs[j].status = ENDED
               /\ jobs[j].status = ENDED
                     => /\ jobs[j].start_time = T
                        /\ jobs[j].end_time = T + D

\* A job that needs a midplane arrived at tick 1 into an emptied system and
\* ended, while a job that arrived after it was queued or running.
C10_Witness ==
    \E j \in JobIds :
        /\ AloneAndFits(j)
        /\ jobs[j].submitted_time = 1
        /\ jobs[j].duration >= 2
        /\ RequestedMidplanes(jobs[j]) >= 1
        /\ jobs[j].status = ENDED
        /\ simulated_wallclock = 1 + jobs[j].duration
        /\ pc = "inc_wallclock"
        /\ queue # << >> \/ running_jobs # << >>

\* --------------------------------------------------------------- C11
NumJobs == Cardinality(JobIds)

\* The jobs are taken from the end of Trace.jobs, none skipped.
DrainedInFeedOrder ==
    /\ Len(submit_order) <= NumJobs
    /\ \A i \in 1..Len(submit_order) : submit_order[i] = NumJobs + 1 - i
    /\ trace = [i \in 1..(NumJobs - Len(submit_order)) |-> i]

\* No job of the trace is overdue, and none is due any more once the
\* scheduler runs.
NothingDueLeft ==
    \A i \in 1..Len(trace) :
        IF pc \in {"schedule", "jobs_tick", "inc_wallclock"}
        THEN jobs[trace[i]].submitted_time > simulated_wallclock
        ELSE jobs[trace[i]].submitted_time >= simulated_wallclock

\* A job is enqueued in the tick that equals its arrival time.
EnqueuedWhenDue ==
    \A j \in JobIds :
        (jobs[j].status = CREATED /\ jobs'[j].status # CREATED)
        => /\ jobs[j].submitted_time = simulated_wallclock
           /\ jobs'[j].submitted_time = jobs[j].submitted_time
           /\ jobs'[j].status = QUEUED
           /\ queue' = Append(queue, j)
           /\ pc = "get_job"

\* The wallclock moves only at the end of a tick, and then by one.
ClockByOne ==
    IF pc = "inc_wallclock"
    THEN simulated_wallclock' = simulated_wallclock + 1
    ELSE simulated_wallclock' = simulated_wallclock

\* C11: every job is enqueued exactly at the tick equal to its arrival
\* time, the jobs are enqueued in feed order with none skipped, all jobs
\* due at a tick are enqueued before the scheduler runs in that tick, and
\* the wallclock grows by exactly 1 per tick.
C11_ArrivalDraining ==
    /\ [](DrainedInFeedOrder /\ NothingDueLeft)
    /\ [][EnqueuedWhenDue /\ ClockByOne]_vars

\* The scheduler runs at tick 1 after one job was enqueued at tick 0 and
\* two at tick 1.
C11_Witness ==
    /\ pc = "schedule"
    /\ simulated_wallclock = 1
    /\ Len(submit_order) = 3
    /\ jobs[submit_order[1]].submitted_time = 0
    /\ jobs[submit_order[2]].submitted_time = 1
    /\ jobs[submit_order[3]].submitted_time = 1

\* --------------------------------------------------------------- C12
\* No job of the trace needs more midplanes than the pool has.
AllFit ==
    \A j \in JobIds : RequestedMidplanes(jobs[j]) <= NumMidplanes

Halted == pc = "done"

\* C12: the loop halts exactly when the trace, the queue and the running
\* set are all empty, and it does halt for every trace whose jobs all need
\* no more midplanes than the pool has.
C12_Termination ==
    /\ [](Halted => (trace = << >> /\ queue = << >> /\ running_jobs = << >>))
    /\ [][pc = "loop"
            => (pc' = "done"
                  <=> (trace = << >> /\ queue = << >> /\ running_jobs = << >>))]_vars
    /\ AllFit => <>Halted

\* The loop has halted after three jobs that each needed the whole pool ran
\* one after the other.
C12_Witness ==
    /\ Halted
    /\ NumJobs = 3
    /\ \A j \in JobIds :
          /\ RequestedMidplanes(jobs[j]) = NumMidplanes
          /\ jobs[j].duration >= 1
          /\ jobs[j].status = ENDED

\* --------------------------------------------------------------- C13
\* Job j never runs: it is never admitted, it keeps the queue non-empty
\* once it has arrived, and the loop does not halt.
NeverRuns(j) ==
    /\ admit_time[j] = None
    /\ ~InSeq(running_jobs, j)
    /\ jobs[j].status \in {CREATED, QUEUED}
    /\ jobs[j].status = QUEUED => InSeq(queue, j)
    /\ ~Halted

\* C13 as stated: a job that requests more nodes than the pool has
\* (midplanes times nodes per midplane) never runs.
C13_OverCapacityNeverRuns ==
    \A j \in JobIds :
        jobs[j].num_of_requested_nodes > NumMidplanes * NodesPerMidplane
        => NeverRuns(j)

\* C13 amended: a job that requests at least one whole midplane more than
\* the pool has, so that its request rounded down to midplanes exceeds the
\* pool, never runs.
C13_OverPoolNeverRuns ==
    \A j \in JobIds :
        jobs[j].num_of_requested_nodes >= (NumMidplanes + 1) * NodesPerMidplane
        => NeverRuns(j)

\* At the tick horizon a job that can never fit is still the head of the
\* queue, after another job has run to its end.
C13_Witness ==
    /\ simulated_wallclock = MaxTick
    /\ queue # << >>
    /\ jobs[Head(queue)].num_of_requested_nodes
          >= (NumMidplanes + 1) * NodesPerMidplane
    /\ \E e \in JobIds : jobs[e].status = ENDED /\ Held(e) # {}

\* --------------------------------------------------------------- C14
\* C14 as stated: the midplanes allocated to a job are a contiguous run in
\* pool index order.
C14_ContiguousAllocation ==
    \A j \in JobIds :
        \A a, b \in Held(j) :
            \A m \in MidplaneIds : (a < m /\ m < b) => m \in Held(j)

\* Job j is admitted in this step.
Admitted(j) ==
    admit_time[j] = None /\ admit_time'[j] # None

\* C14 amended: the midplanes allocated to a job are taken in increasing
\* pool index order and every midplane passed over between two of them is
\* OCCUPIED at that moment, so the run is contiguous exactly when no
\* OCCUPIED midplane lies inside it.
C14_ContiguousAmongVacant ==
    [][\A j \in JobIds :
          Admitted(j)
          => LET got == jobs'[j].midplanes
             IN  /\ \A i \in 1..(Len(got) - 1) : got[i] < got[i + 1]
                 /\ \A i \in 1..(Len(got) - 1) :
                       \A m \in MidplaneIds :
                           (got[i] < m /\ m < got[i + 1])
                           => midplanes[m].status = OCCUPIED]_vars

\* A running job holds two midplanes with a midplane of another job
\* between them.
C14_Witness ==
    \E j \in JobIds :
        /\ InSeq(running_jobs, j)
        /\ \E a, b \in Held(j) :
              \E m \in MidplaneIds :
                  /\ a < m /\ m < b
                  /\ midplanes[m].status = OCCUPIED
                  /\ midplanes[m].job # j

\* --------------------------------------------------------------- C15
\* Job j requests more than one midplane and less than two: one midplane
\* and a remainder, as 5 nodes on midplanes of 4.
OneAndRemainder(j) ==
    /\ jobs[j].num_of_requested_nodes > NodesPerMidplane
    /\ jobs[j].num_of_requested_nodes < 2 * NodesPerMidplane

\* C15 as stated: such a request is computed as zero midplanes, so the job
\* is admitted holding none.
C15_RoundsDownToZero ==
    \A j \in JobIds :
        (OneAndRemainder(j) /\ admit_time[j] # None)
        => Len(jobs[j].midplanes) = 0

\* C15 amended: such a request is computed as one midplane, neither zero
\* nor two: 5 nodes on midplanes of 4 need 1, and the job is admitted
\* holding exactly one midplane.
C15_RoundsDownToOne ==
    /\ MidplanesNeeded(5, 4) = 1
    /\ \A j \in JobIds :
          OneAndRemainder(j)
          => /\ RequestedMidplanes(jobs[j]) = 1
             /\ admit_time[j] # None => Len(jobs[j].midplanes) = 1

\* A job that requests one midplane and a remainder has been admitted.
C15_Witness ==
    \E j \in JobIds :
        /\ OneAndRemainder(j)
        /\ jobs[j].status = READY
        /\ Len(jobs[j].midplanes) = 1

\* --------------------------------------------------------------- C16
\* C16: free_up called on a VACANT midplane leaves the status, the owner
\* and the node assignments of every midplane as they were and returns.
C16_DoubleReleaseNonFatal ==
    [][\A m \in MidplaneIds :
          (CallFreeUp(m) /\ IsVacant(midplanes[m]))
          => (midplanes' = midplanes /\ pc' = "call")]_vars

\* --------------------------------------------------------------- C17
\* C17: assign_job called on an OCCUPIED midplane fails, leaving the owner
\* of the midplane in place.
C17_AssignOccupiedFailsFast ==
    [][\A m \in MidplaneIds : \A j \in JobIds :
          (CallAssignJob(m, j) /\ ~IsVacant(midplanes[m]))
          => (midplanes' = midplanes /\ pc' # "call")]_vars

\* The second half of C17, in the simulation loop: every midplane whose
\* owner changes to a job in a step was VACANT before the step.
C17_ScheduleAssignsOnlyVacant ==
    [][\A m \in MidplaneIds :
          (midplanes'[m].job # midplanes[m].job /\ midplanes'[m].job # None)
          => (pc = "schedule" /\ IsVacant(midplanes[m]))]_vars

\* --------------------------------------------------------------- C18
\* requested_nodes // nodes_per_block, as the largest k with
\* k * nodes_per_block <= requested_nodes.
FloorBlocks(nodes) ==
    CHOOSE k \in 0..nodes :
        k * NodesPerMidplane <= nodes /\ nodes < (k + 1) * NodesPerMidplane

VacantSet == {m \in MidplaneIds : midplanes[m].status = VACANT}

\* The k VACANT midplanes of lowest index.
FirstVacant(k) ==
    {m \in VacantSet : Cardinality({v \in VacantSet : v < m}) < k}

\* C18: when schedule runs with a job at the head of the queue, the job is
\* admitted if and only if at least k = requested_nodes // nodes_per_block
\* midplanes are VACANT, and then it is given exactly the first k VACANT
\* midplanes in pool index order, which become OCCUPIED by it while every
\* other midplane stays as it was.
C18_AllocationResult ==
    [][(pc = "schedule" /\ queue # << >>)
        => LET j == Head(queue)
               k == FloorBlocks(jobs[j].num_of_requested_nodes)
           IN  /\ Admitted(j) <=> Cardinality(VacantSet) >= k
               /\ \A o \in JobIds : o # j => ~Admitted(o)
               /\ Admitted(j)
                    => /\ Len(jobs'[j].midplanes) = k
                       /\ {jobs'[j].midplanes[i] : i \in 1..k} = FirstVacant(k)
                       /\ running_jobs' = Append(running_jobs, j)
                       /\ \A m \in MidplaneIds :
                             IF m \in FirstVacant(k)
                             THEN /\ midplanes'[m].status = OCCUPIED
                                  /\ midplanes'[m].job = j
                             ELSE midplanes'[m] = midplanes[m]]_vars

\* A job has just been admitted with two midplanes, one of them beyond a
\* midplane that another job occupies.
C18_Witness ==
    /\ pc = "jobs_tick"
    /\ \E j \in JobIds :
          /\ jobs[j].status = READY
          /\ Len(jobs[j].midplanes) = 2
          /\ \E m \in MidplaneIds :
                /\ m < jobs[j].midplanes[2]
                /\ midplanes[m].status = OCCUPIED
                /\ midplanes[m].job # j

\* --------------------------------------------------------------- C19
\* The head of the queue requires more midplanes than are VACANT.
HeadLacksMidplanes ==
    /\ queue # << >>
    /\ Cardinality(VacantSet) < FloorBlocks(jobs[Head(queue)].num_of_requested_nodes)

\* C19: when schedule runs and fewer midplanes are VACANT than the head of
\* the queue requires, the queue (contents and order), the running set,
\* every midplane (status, owner, node assignments) and every job (the
\* head's status and midplane list included) are left unchanged.
C19_FailedAdmissionChangesNothing ==
    [][(pc = "schedule" /\ HeadLacksMidplanes)
        => /\ queue' = queue
           /\ running_jobs' = running_jobs
           /\ midplanes' = midplanes
           /\ jobs' = jobs
           /\ jobs'[Head(queue)].status = QUEUED
           /\ jobs'[Head(queue)].midplanes = << >>]_vars

\* schedule has just left a head that does not fit (nothing was admitted in
\* this tick), with another job behind it in the queue and a job running on
\* some midplane.
C19_Witness ==
    /\ pc = "jobs_tick"
    /\ HeadLacksMidplanes
    /\ \A j \in JobIds : admit_time[j] # simulated_wallclock
    /\ Len(queue) >= 2
    /\ running_jobs # << >>
    /\ OccupiedCount > 0

\* --------------------------------------------------------------- C20
\* Job j requests fewer nodes than one midplane holds.
ZeroBlock(j) == jobs[j].num_of_requested_nodes < NodesPerMidplane

\* Job j owns nothing of the pool.
OwnsNothing(j) ==
    /\ jobs[j].midplanes = << >>
    /\ \A m \in MidplaneIds :
          /\ midplanes[m].job # j
          /\ \A n \in NodeIds : midplanes[m].nodes[n] # j

\* The wallclock has passed the admission time of job j by more than its
\* duration plus one tick for each other job: jobs_tick has reached j at
\* least duration + 1 times, since j is passed over at most once for each
\* other job that ends before it in the running set.
EndDue(j) ==
    simulated_wallclock > admit_time[j] + jobs[j].duration + (NumJobs - 1)

\* C20: a job that requests fewer nodes than one midplane holds is admitted
\* by the first schedule call that finds it at the head of the queue,
\* whatever the occupancy of the pool; it never owns a midplane or a node;
\* its admission leaves every midplane as it was, and jobs_tick changes a
\* midplane only to release it from another job that has ended; once
\* admitted it reaches ENDED, having passed through READY and RUNNING,
\* within its duration plus one tick for each other job.
C20_ZeroBlockAdmission ==
    /\ [](\A j \in JobIds : ZeroBlock(j) =>
             /\ OwnsNothing(j)
             /\ IsPrefix(jobs[j].status_log, Statuses)
             /\ jobs[j].status = ENDED => jobs[j].status_log = Statuses)
    /\ [][(pc = "schedule" /\ queue # << >> /\ ZeroBlock(Head(queue)))
            => /\ Admitted(Head(queue))
               /\ jobs'[Head(queue)].status = READY
               /\ midplanes' = midplanes]_vars
    /\ [][pc = "jobs_tick"
            => \A m \in MidplaneIds :
                  midplanes'[m] # midplanes[m]
                     => /\ midplanes[m].job # None
                        /\ ~ZeroBlock(midplanes[m].job)
                        /\ jobs'[midplanes[m].job].status = ENDED
                        /\ midplanes'[m] = NewMidPlane]_vars
    /\ [](\A j \in JobIds :
             (ZeroBlock(j) /\ admit_time[j] # None /\ EndDue(j))
                => jobs[j].status = ENDED)

\* A job that requests fewer nodes than one midplane holds has been admitted
\* in this tick while every midplane of the pool is OCCUPIED by other jobs.
C20_Witness ==
    /\ pc = "jobs_tick"
    /\ OccupiedCount = NumMidplanes
    /\ \E j \in JobIds :
          /\ ZeroBlock(j)
          /\ jobs[j].status = READY
          /\ admit_time[j] = simulated_wallclock
          /\ InSeq(running_jobs, j)

====
